---- MODULE Spec2Model ----
(***************************************************************************)
(* Invocation layer of the Restate Python SDK.                             *)
(*   restate/handler.py : handler registration, lookup and invocation      *)
(*   restate/vm.py      : VMWrapper, the typed wrapper of the engine (PyVM)*)
(***************************************************************************)
EXTENDS Integers, Sequences, FiniteSets, TLC

\* ------------------------------------------------------------------ bounds
MaxHandlers == 2     \* successful make_handler calls in one run
MaxBytesLen == 2     \* length of a bytes value the engine resolves
MaxPolls    == 3     \* take_async_result calls in one session
MaxAwaits   == 2     \* await points of one handler execution

\* ------------------------------------------------------------ python values
NONE == "<None>"

Falsy(s) == s = NONE \/ s = ""

\* a python value handled by serdes and user functions
IntVal(n)   == [t |-> "int",   n |-> n, m |-> "-", b |-> <<>>]
DictVal     == [t |-> "dict",  n |-> 0, m |-> "-", b |-> <<>>]
ModelVal(m) == [t |-> "model", n |-> 0, m |-> m,   b |-> <<>>]
BytesVal(b) == [t |-> "bytes", n |-> 0, m |-> "-", b |-> b]

Exc(cls, message) == [cls |-> cls, message |-> message]
NoExc == Exc("-", <<>>)

\* ------------------------------------------------------------------- serde
GeneralSerde         == [cls |-> "GeneralSerde",      model |-> "-"]
BytesSerde           == [cls |-> "BytesSerde",        model |-> "-"]
PydanticJsonSerde(a) == [cls |-> "PydanticJsonSerde", model |-> a]

IsDigit(c) == c \in 48..57

RECURSIVE DigitsToNat(_)
DigitsToNat(s) ==
    IF s = <<>> THEN 0
    ELSE 10 * DigitsToNat(SubSeq(s, 1, Len(s) - 1)) + (s[Len(s)] - 48)

RECURSIVE NatToDigits(_)
NatToDigits(n) ==
    IF n < 10 THEN <<48 + n>>
    ELSE Append(NatToDigits(n \div 10), 48 + (n % 10))

\* json text of the byte alphabet used here: a decimal number or "{}"
IsJsonNumber(buf) ==
    /\ Len(buf) > 0
    /\ \A i \in 1..Len(buf) : IsDigit(buf[i])
    /\ (Len(buf) > 1 => buf[1] # 48)

Decoded(v)    == [ok |-> TRUE,  val |-> v,         exc |-> NoExc]
DecodeError(c) == [ok |-> FALSE, val |-> IntVal(0), exc |-> Exc(c, <<c>>)]

Deserialize(serde, buf) ==
    CASE serde.cls = "GeneralSerde" ->
            IF IsJsonNumber(buf) THEN Decoded(IntVal(DigitsToNat(buf)))
            ELSE IF buf = <<123, 125>> THEN Decoded(DictVal)
            ELSE DecodeError("JSONDecodeError")
      [] serde.cls = "PydanticJsonSerde" ->
            IF buf = <<123, 125>> THEN Decoded(ModelVal(serde.model))
            ELSE DecodeError("ValidationError")
      [] OTHER -> Decoded(BytesVal(buf))

Encoded(b)     == [ok |-> TRUE,  bytes |-> b,    exc |-> NoExc]
EncodeError(c) == [ok |-> FALSE, bytes |-> <<>>, exc |-> Exc(c, <<c>>)]

Serialize(serde, v) ==
    CASE serde.cls = "GeneralSerde" ->
            IF v.t = "int" THEN Encoded(NatToDigits(v.n))
            ELSE IF v.t = "dict" THEN Encoded(<<123, 125>>)
            ELSE EncodeError("TypeError")
      [] serde.cls = "PydanticJsonSerde" ->
            IF v.t = "model" THEN Encoded(<<123, 125>>)
            ELSE EncodeError("AttributeError")
      [] OTHER ->
            IF v.t = "bytes" THEN Encoded(v.b) ELSE EncodeError("TypeError")

\* --------------------------------------------------------- type annotations
Classes        == {"Context", "int", "ModelA", "ModelB"}
PydanticModels == {"ModelA", "ModelB"}

is_pydantic(annotation) ==
    IF annotation \notin Classes THEN FALSE      \* issubclass raises TypeError
    ELSE annotation \in PydanticModels

TypeHint(annotation, isp) == [annotation |-> annotation, is_pydantic |-> isp]

HandlerIO(in_serde, out_serde) ==
    [accept |-> "application/json", content_type |-> "application/json",
     input_serde |-> in_serde, output_serde |-> out_serde,
     input_type |-> <<>>, output_type |-> <<>>]

Sig(params, ret) == [parameters |-> params, return_annotation |-> ret]

Signatures ==
    { Sig(<<>>, "int"),
      Sig(<<"Context">>, "int"),
      Sig(<<"Context", "int">>, "ModelA"),
      Sig(<<"Context", "ModelA">>, "List[int]"),
      Sig(<<"Context", "int", "ModelA">>, "ModelB") }

\* variant: the serde is replaced whatever serde the HandlerIO holds
extract_io_type_hints_override(handler_io, signature) ==
    LET in_ann  == signature.parameters[Len(signature.parameters)]
        out_ann == signature.return_annotation
    IN [handler_io EXCEPT
          !.input_type   = <<TypeHint(in_ann, is_pydantic(in_ann))>>,
          !.input_serde  = IF is_pydantic(in_ann)
                           THEN PydanticJsonSerde(in_ann) ELSE @,
          !.output_type  = <<TypeHint(out_ann, is_pydantic(out_ann))>>,
          !.output_serde = IF is_pydantic(out_ann)
                           THEN PydanticJsonSerde(out_ann) ELSE @]

\* the value handler_io holds after the in-place update
extract_io_type_hints(handler_io, signature) ==
    LET in_ann  == signature.parameters[Len(signature.parameters)]
        out_ann == signature.return_annotation
    IN [handler_io EXCEPT
          !.input_type   = <<TypeHint(in_ann, is_pydantic(in_ann))>>,
          !.input_serde  = IF is_pydantic(in_ann) /\ @.cls = "GeneralSerde"
                           THEN PydanticJsonSerde(in_ann) ELSE @,
          !.output_type  = <<TypeHint(out_ann, is_pydantic(out_ann))>>,
          !.output_serde = IF is_pydantic(out_ann) /\ @.cls = "GeneralSerde"
                           THEN PydanticJsonSerde(out_ann) ELSE @]

\* ------------------------------------------------------- handler registry
Fns   == {"f", "anon"}                 \* function objects, by identity
IoIds == {"ioA", "ioB"}                \* HandlerIO objects, by identity
ExplicitNames == {NONE, "h"}           \* the name argument of make_handler
InBuffers == {<<53>>, <<120>>, <<123, 125>>}          \* "5", "x", "{}"
Behaviours == {"return", "raise_terminal", "raise_other"}

\* wrapped.__name__
FnName(wrapped) == IF wrapped = "anon" THEN "" ELSE wrapped

ServiceTag(kind, name) == [kind |-> kind, name |-> name]
TheService == ServiceTag("service", "Greeter")

\* Handler dataclass; handler_io is a reference to a HandlerIO object and
\* id is the identity of the Handler object itself
Handler(id, service_tag, handler_io, kind, name, fn, arity) ==
    [id |-> id, service_tag |-> service_tag, handler_io |-> handler_io,
     kind |-> kind, name |-> name, fn |-> fn, arity |-> arity]

Raised(heap, attrs, e) ==
    [exc |-> e, handler |-> <<>>, ioHeap |-> heap, attr |-> attrs]

\* variant: the name is checked after handler_io was updated
make_handler_late_name_check(heap, attrs, service_tag, handler_io, name, kind, wrapped, signature, id) ==
    LET handler_name == IF Falsy(name) THEN FnName(wrapped) ELSE name
        arity        == Len(signature.parameters)
        handler      == Handler(id, service_tag, handler_io, kind,
                                handler_name, wrapped, arity)
        updated      == [heap EXCEPT ![handler_io] =
                            extract_io_type_hints(@, signature)]
    IN IF Len(signature.parameters) = 0
       THEN Raised(heap, attrs,
                   Exc("ValueError",
                       <<"Handler must have at least one parameter">>))
       ELSE IF Falsy(handler_name)
       THEN Raised(updated, attrs,
                   Exc("ValueError", <<"Handler name must be provided">>))
       ELSE [exc     |-> NoExc,
             handler |-> <<handler>>,
             ioHeap  |-> updated,
             attr    |-> [attrs EXCEPT ![wrapped] = <<handler>>]]

\* variant: the handler is returned without being stored on the function
make_handler_detached(heap, attrs, service_tag, handler_io, name, kind, wrapped, signature, id) ==
    LET handler_name == IF Falsy(name) THEN FnName(wrapped) ELSE name
        arity        == Len(signature.parameters)
        handler      == Handler(id, service_tag, handler_io, kind,
                                handler_name, wrapped, arity)
    IN IF Falsy(handler_name)
       THEN Raised(heap, attrs,
                   Exc("ValueError", <<"Handler name must be provided">>))
       ELSE IF Len(signature.parameters) = 0
       THEN Raised(heap, attrs,
                   Exc("ValueError",
                       <<"Handler must have at least one parameter">>))
       ELSE [exc     |-> NoExc,
             handler |-> <<handler>>,
             ioHeap  |-> [heap EXCEPT ![handler_io] =
                             extract_io_type_hints(@, signature)],
             attr    |-> attrs]

\* make_handler on the heap of HandlerIO objects and the functions'
\* attribute dictionaries: the outcome and the heap and dictionaries after
make_handler(heap, attrs, service_tag, handler_io, name, kind, wrapped, signature, id) ==
    LET handler_name == IF Falsy(name) THEN FnName(wrapped) ELSE name
        arity        == Len(signature.parameters)
        handler      == Handler(id, service_tag, handler_io, kind,
                                handler_name, wrapped, arity)
    IN IF Falsy(handler_name)
       THEN Raised(heap, attrs,
                   Exc("ValueError", <<"Handler name must be provided">>))
       ELSE IF Len(signature.parameters) = 0
       THEN Raised(heap, attrs,
                   Exc("ValueError",
                       <<"Handler must have at least one parameter">>))
       ELSE [exc     |-> NoExc,
             handler |-> <<handler>>,
             ioHeap  |-> [heap EXCEPT ![handler_io] =
                             extract_io_type_hints(@, signature)],
             attr    |-> [attrs EXCEPT ![wrapped] = <<handler>>]]

\* handler_from_callable: vars(wrapper)[RESTATE_UNIQUE_HANDLER_SYMBOL]
handler_from_callable(attrs, wrapper) ==
    IF attrs[wrapper] = <<>>
    THEN [exc |-> Exc("ValueError", <<"Handler not found">>),
          handler |-> <<>>]
    ELSE [exc |-> NoExc, handler |-> attrs[wrapper]]

\* ---------------------------------------------------------- handler invoker
\* the user function: doubles an integer payload, echoes any other payload,
\* answers 7 when it takes the context only; or raises
UserResult(args) ==
    IF Len(args) = 1 THEN IntVal(7)
    ELSE IF args[2].t = "int" THEN IntVal(2 * args[2].n) ELSE args[2]

\* await handler.fn(*args) for a function declaring nparams parameters
CallFn(nparams, args, behaviour) ==
    IF Len(args) # nparams
    THEN [ok |-> FALSE, val |-> IntVal(0),
          exc |-> Exc("TypeError", <<"missing positional arguments">>)]
    ELSE CASE behaviour = "return" ->
                [ok |-> TRUE, val |-> UserResult(args), exc |-> NoExc]
           [] behaviour = "raise_terminal" ->
                [ok |-> FALSE, val |-> IntVal(0),
                 exc |-> Exc("TerminalError", <<"user">>)]
           [] OTHER ->
                [ok |-> FALSE, val |-> IntVal(0),
                 exc |-> Exc("RuntimeError", <<"user">>)]

\* variant: the error of deserialize is not caught
invoke_input_uncaught(handler, io, in_buffer) ==
    IF handler.arity = 2
    THEN LET d == Deserialize(io.input_serde, in_buffer)
         IN IF d.ok
            THEN [deserialized |-> TRUE, ok |-> TRUE,
                  args |-> <<"ctx", d.val>>, exc |-> NoExc]
            ELSE [deserialized |-> TRUE, ok |-> FALSE, args |-> <<>>,
                  exc |-> d.exc]
    ELSE [deserialized |-> FALSE, ok |-> TRUE, args |-> <<"ctx">>,
          exc |-> NoExc]

\* variant: the input is deserialized whatever the arity
invoke_input_always_parses(handler, io, in_buffer) ==
    LET d == Deserialize(io.input_serde, in_buffer)
    IN IF d.ok
       THEN [deserialized |-> TRUE, ok |-> TRUE,
             args |-> <<"ctx", d.val>>, exc |-> NoExc]
       ELSE [deserialized |-> TRUE, ok |-> FALSE, args |-> <<>>,
             exc |-> Exc("TerminalError",
                         <<"Unable to parse an input argument. ">>
                            \o d.exc.message)]

\* invoke_handler up to the call of the user function: the arguments of the
\* call, or the error raised instead
invoke_input(handler, io, in_buffer) ==
    IF handler.arity = 2
    THEN LET d == Deserialize(io.input_serde, in_buffer)
         IN IF d.ok
            THEN [deserialized |-> TRUE, ok |-> TRUE,
                  args |-> <<"ctx", d.val>>, exc |-> NoExc]
            ELSE [deserialized |-> TRUE, ok |-> FALSE, args |-> <<>>,
                  exc |-> Exc("TerminalError",
                              <<"Unable to parse an input argument. ">>
                                 \o d.exc.message)]
    ELSE [deserialized |-> FALSE, ok |-> TRUE, args |-> <<"ctx">>,
          exc |-> NoExc]

\* invoke_handler after the user function returned out_arg
invoke_output(io, out_arg) == Serialize(io.output_serde, out_arg)

InvokeTrace(deserialized, args, out, kind, bytes, exc) ==
    [deserialized |-> deserialized, fn_args |-> args, out_arg |-> out,
     kind |-> kind, bytes |-> bytes, exc |-> exc]

\* invoke_handler: what it returns or raises, with the calls it made
invoke_handler(handler, io, in_buffer, behaviour) ==
    LET i == invoke_input(handler, io, in_buffer)
        c == CallFn(handler.arity, i.args, behaviour)
        o == invoke_output(io, c.val)
    IN IF ~i.ok
       THEN InvokeTrace(i.deserialized, <<>>, <<>>, "raise", <<>>, i.exc)
       ELSE IF ~c.ok
       THEN InvokeTrace(i.deserialized, i.args, <<>>, "raise", <<>>, c.exc)
       ELSE IF ~o.ok
       THEN InvokeTrace(i.deserialized, i.args, <<c.val>>, "raise", <<>>,
                        o.exc)
       ELSE InvokeTrace(i.deserialized, i.args, <<c.val>>, "return",
                        o.bytes, NoExc)

\* ------------------------------------------------------- engine session
\* what PyVM.take_async_result hands back: None, PyVoid, bytes, PyFailure,
\* PySuspended, or an object of some other type (here: an int)
EngineResult(tag, val, code, message) ==
    [tag |-> tag, val |-> val, code |-> code, message |-> message]

RECURSIVE BytesUpTo(_)
BytesUpTo(n) ==
    IF n = 0 THEN {<<>>}
    ELSE LET shorter == BytesUpTo(n - 1)
         IN shorter \cup {Append(b, c) : b \in shorter, c \in {0, 1}}

EngineResults ==
    {EngineResult("None", <<>>, 0, ""), EngineResult("PyVoid", <<>>, 0, ""),
     EngineResult("PySuspended", <<>>, 0, ""),
     EngineResult("PyFailure", <<>>, 404, "not found"),
     EngineResult("PyFailure", <<>>, 0, ""),
     EngineResult("int", <<>>, 0, ""), EngineResult("int", <<>>, 1, "")}
    \cup {EngineResult("bytes", b, 0, "") : b \in BytesUpTo(MaxBytesLen)}

\* python truth value of an engine result (the operand of "not result"):
\* None, empty bytes and 0 are false; the engine's result objects define
\* neither __bool__ nor __len__ and are true
Truthy(result) ==
    CASE result.tag = "None"  -> FALSE
      [] result.tag = "bytes" -> Len(result.val) > 0
      [] result.tag = "int"   -> result.code # 0
      [] OTHER                -> TRUE

\* what VMWrapper.take_async_result returns or raises
AsyncResult(tag, val, code, message) ==
    [tag |-> tag, val |-> val, code |-> code, message |-> message]
NOT_READY == AsyncResult("NOT_READY", <<>>, 0, "")
SUSPENDED == AsyncResult("raise SuspendedException", <<>>, 0, "")
Failure(code, message) == AsyncResult("Failure", <<>>, code, message)

take_async_result(result) ==
    IF ~Truthy(result) THEN NOT_READY
    ELSE IF result.tag = "PyVoid" THEN AsyncResult("None", <<>>, 0, "")
    ELSE IF result.tag = "bytes" THEN AsyncResult("bytes", result.val, 0, "")
    ELSE IF result.tag = "PyFailure"
         THEN Failure(result.code, result.message)
    ELSE IF result.tag = "PySuspended" THEN SUSPENDED
    ELSE AsyncResult("raise ValueError", <<>>, 0, "")

\* the engine as this layer sees it: the calls it has received
NewVM ==
    [input |-> <<>>, closed |-> FALSE, handle |-> 0, output |-> <<>>,
     errors |-> 0, ended |-> 0]

notify_input(vm, input_buf) == [vm EXCEPT !.input = @ \o input_buf]
notify_input_closed(vm)     == [vm EXCEPT !.closed = TRUE]
notify_error(vm, error)     == [vm EXCEPT !.errors = @ + 1]
notify_await_point(vm, handle) == [vm EXCEPT !.handle = handle]
is_ready_to_execute(vm)     == vm.closed
sys_input(vm)               == [input_buffer |-> vm.input]

sys_write_output_success(vm, output) ==
    [vm EXCEPT !.output =
        Append(@, [call |-> "sys_write_output_success", bytes |-> output,
                   code |-> 0, message |-> <<>>])]

\* variant: the failure is built but never handed to the engine
sys_write_output_failure_unsent(vm, output) == vm

sys_write_output_failure(vm, output) ==
    [vm EXCEPT !.output =
        Append(@, [call |-> "sys_write_output_failure", bytes |-> <<>>,
                   code |-> output.code, message |-> output.message])]

\* variant: the engine is not told
sys_end_unsent(vm) == vm

sys_end(vm) == [vm EXCEPT !.ended = @ + 1]

\* ------------------------------------------------------------------- state
VARIABLES
    ioHeap,    \* HandlerIO objects: IoIds -> HandlerIO
    attr,      \* vars(fn)[RESTATE_UNIQUE_HANDLER_SYMBOL]: <<>> when absent
    built,     \* history: every Handler returned by make_handler, with the
               \* HandlerIO it held when it was returned
    ret,       \* the last call of this layer, its arguments and its outcome
    pc,        \* state of the engine session
    vm,        \* the engine of the session
    inv,       \* the running invocation: handler arity, call arguments
    lastPoll,  \* the last take_async_result: engine result and classification
    outcome,   \* how the handler execution ended
    polls,     \* take_async_result calls so far
    awaits     \* await points so far

regVars  == <<ioHeap, attr, built, ret>>
sessVars == <<pc, vm, inv, lastPoll, outcome, polls, awaits>>
vars == <<ioHeap, attr, built, ret, pc, vm, inv, lastPoll, outcome, polls,
          awaits>>

Init ==
    /\ ioHeap = [i \in IoIds |->
                    IF i = "ioA" THEN HandlerIO(GeneralSerde, GeneralSerde)
                    ELSE HandlerIO(BytesSerde, BytesSerde)]
    /\ attr = [f \in Fns |-> <<>>]
    /\ built = <<>>
    /\ ret = [op |-> "none"]
    /\ pc = "Created"
    /\ vm = NewVM
    /\ inv = [arity |-> 0, args |-> <<>>]
    /\ lastPoll = [raw |-> EngineResult("None", <<>>, 0, ""),
                   res |-> NOT_READY]
    /\ outcome = "none"
    /\ polls = 0
    /\ awaits = 0

\* ------------------------------------------------------ registry operations
MakeHandler(io, name, wrapped, signature) ==
    LET r == make_handler(ioHeap, attr, TheService, io, name, NONE, wrapped,
                          signature, Len(built) + 1)
    IN /\ Len(built) < MaxHandlers
       /\ ioHeap' = r.ioHeap
       /\ attr' = r.attr
       /\ built' = IF r.handler = <<>> THEN built
                   ELSE Append(built, [handler |-> r.handler[1],
                                       io |-> r.ioHeap[io]])
       /\ ret' = [op |-> "make_handler", handler_io |-> io, name |-> name,
                  wrapped |-> wrapped, signature |-> signature,
                  exc |-> r.exc, handler |-> r.handler]
       /\ UNCHANGED sessVars

HandlerFromCallable(wrapper) ==
    LET r == handler_from_callable(attr, wrapper)
    IN /\ ret' = [op |-> "handler_from_callable", wrapper |-> wrapper,
                  exc |-> r.exc, handler |-> r.handler]
       /\ UNCHANGED <<ioHeap, attr, built>>
       /\ UNCHANGED sessVars

InvokeHandler(wrapper, in_buffer, behaviour) ==
    /\ attr[wrapper] # <<>>
    /\ LET handler == attr[wrapper][1]
       IN ret' = [op |-> "invoke_handler", handler |-> handler,
                  in_buffer |-> in_buffer, behaviour |-> behaviour,
                  io |-> ioHeap[handler.handler_io],
                  trace |-> invoke_handler(handler,
                                           ioHeap[handler.handler_io],
                                           in_buffer, behaviour)]
    /\ UNCHANGED <<ioHeap, attr, built>>
    /\ UNCHANGED sessVars

Next ==
    \/ \E io \in IoIds, name \in ExplicitNames, wrapped \in Fns,
          signature \in Signatures :
          MakeHandler(io, name, wrapped, signature)
    \/ \E wrapper \in Fns : HandlerFromCallable(wrapper)
    \/ \E wrapper \in Fns, in_buffer \in InBuffers, behaviour \in Behaviours :
          InvokeHandler(wrapper, in_buffer, behaviour)

Spec == Init /\ [][Next]_vars

\* ------------------------------------------------- one invocation's session
\* the handler the session runs and its HandlerIO
SessionIO == HandlerIO(GeneralSerde, GeneralSerde)
SessionHandler(arity) ==
    Handler(0, TheService, "ioA", NONE, "greet", "f", arity)

\* the host feeds the request body and closes the input
NotifyInput(input_buf) ==
    /\ pc = "Created"
    /\ vm' = notify_input_closed(notify_input(vm, input_buf))
    /\ pc' = "Fed"
    /\ UNCHANGED <<inv, lastPoll, outcome, polls, awaits>>
    /\ UNCHANGED regVars

\* the host reads the invocation and enters invoke_handler; an input that
\* does not parse ends the invocation with a terminal failure
Enter(arity) ==
    /\ pc = "Fed"
    /\ is_ready_to_execute(vm)
    /\ LET i == invoke_input(SessionHandler(arity), SessionIO,
                             sys_input(vm).input_buffer)
       IN IF i.ok
          THEN /\ inv' = [arity |-> arity, args |-> i.args]
               /\ pc' = "Executing"
               /\ UNCHANGED <<vm, outcome>>
          ELSE /\ inv' = [arity |-> arity, args |-> <<>>]
               /\ vm' = sys_write_output_failure(vm,
                                                 Failure(500, i.exc.message))
               /\ outcome' = "failure"
               /\ pc' = "ReadyToFinish"
    /\ UNCHANGED <<lastPoll, polls, awaits>>
    /\ UNCHANGED regVars

\* user code reaches a durable operation
Await ==
    /\ pc = "Executing"
    /\ awaits < MaxAwaits
    /\ awaits' = awaits + 1
    /\ vm' = notify_await_point(vm, awaits + 1)
    /\ pc' = "Awaiting"
    /\ UNCHANGED <<inv, lastPoll, outcome, polls>>
    /\ UNCHANGED regVars

\* the await point polls the engine, which hands back result
Poll(result) ==
    /\ pc = "Awaiting"
    /\ polls < MaxPolls
    /\ polls' = polls + 1
    /\ LET res == take_async_result(result)
       IN /\ lastPoll' = [raw |-> result, res |-> res]
          /\ CASE res.tag = "NOT_READY" ->
                    /\ pc' = "Awaiting"
                    /\ UNCHANGED <<vm, outcome>>
               [] res.tag = "raise SuspendedException" ->
                    /\ pc' = "Suspended"
                    /\ outcome' = "suspended"
                    /\ UNCHANGED vm
               [] res.tag = "raise ValueError" ->
                    /\ pc' = "Failed"
                    /\ outcome' = "error"
                    /\ vm' = notify_error(vm, "Unknown result type")
               [] OTHER ->
                    /\ pc' = "Executing"
                    /\ UNCHANGED <<vm, outcome>>
    /\ UNCHANGED <<inv, awaits>>
    /\ UNCHANGED regVars

\* the user function returns; its result is serialized and committed
Return ==
    /\ pc = "Executing"
    /\ LET c == CallFn(inv.arity, inv.args, "return")
           o == invoke_output(SessionIO, c.val)
       IN IF c.ok /\ o.ok
          THEN /\ vm' = sys_write_output_success(vm, o.bytes)
               /\ outcome' = "success"
               /\ pc' = "ReadyToFinish"
          ELSE /\ vm' = notify_error(vm, "error")
               /\ outcome' = "error"
               /\ pc' = "Failed"
    /\ UNCHANGED <<inv, lastPoll, polls, awaits>>
    /\ UNCHANGED regVars

\* the user function raises a terminal error
RaiseTerminal ==
    /\ pc = "Executing"
    /\ LET c == CallFn(inv.arity, inv.args, "raise_terminal")
       IN vm' = sys_write_output_failure(vm, Failure(500, c.exc.message))
    /\ outcome' = "failure"
    /\ pc' = "ReadyToFinish"
    /\ UNCHANGED <<inv, lastPoll, polls, awaits>>
    /\ UNCHANGED regVars

\* the user function raises any other error
RaiseOther ==
    /\ pc = "Executing"
    /\ LET c == CallFn(inv.arity, inv.args, "raise_other")
       IN vm' = notify_error(vm, c.exc.message)
    /\ outcome' = "error"
    /\ pc' = "Failed"
    /\ UNCHANGED <<inv, lastPoll, polls, awaits>>
    /\ UNCHANGED regVars

\* teardown of the session, on every exit path
SysEnd ==
    /\ pc \in {"ReadyToFinish", "Suspended", "Failed"}
    /\ vm' = sys_end(vm)
    /\ pc' = "Ended"
    /\ UNCHANGED <<inv, lastPoll, outcome, polls, awaits>>
    /\ UNCHANGED regVars

SessionNext ==
    \/ \E input_buf \in InBuffers : NotifyInput(input_buf)
    \/ \E arity \in {1, 2} : Enter(arity)
    \/ Await
    \/ \E result \in EngineResults : Poll(result)
    \/ Return
    \/ RaiseTerminal
    \/ RaiseOther
    \/ SysEnd

SessionSpec == Init /\ [][SessionNext]_vars

FairSessionSpec == SessionSpec /\ WF_vars(SysEnd)

\* ================================================================== claims
Writes == Len(vm.output)

C3_ClassifiesByShape ==
    polls > 0 =>
       LET raw == lastPoll.raw
           res == lastPoll.res
       IN /\ (res.tag = "NOT_READY" <=> raw.tag = "None")
          /\ (raw.tag = "PyVoid" => res.tag = "None")
          /\ (raw.tag = "bytes" => res.tag = "bytes" /\ res.val = raw.val)
          /\ (raw.tag = "PyFailure" =>
                /\ res.tag = "Failure"
                /\ res.code = raw.code
                /\ res.message = raw.message)
          /\ (raw.tag = "PySuspended" => res.tag = "raise SuspendedException")
          /\ (raw.tag = "int" => res.tag = "raise ValueError")

\* part is a contiguous piece of msg
Includes(msg, part) ==
    \E i \in 0..(Len(msg) - Len(part)) :
        SubSeq(msg, i + 1, i + Len(part)) = part

\* C4: when the handler has arity 2 and the input serde cannot deserialize
\* the input, invoke_handler raises TerminalError whose message includes the
\* decoding error, not the serde's own exception, and the user function is
\* not called.
C4_BadInputIsTerminal ==
    (/\ ret.op = "invoke_handler"
     /\ ret.handler.arity = 2
     /\ ~Deserialize(ret.io.input_serde, ret.in_buffer).ok)
    => LET raw == Deserialize(ret.io.input_serde, ret.in_buffer).exc
       IN /\ ret.trace.kind = "raise"
          /\ ret.trace.exc.cls = "TerminalError"
          /\ Includes(ret.trace.exc.message, raw.message)
          /\ ret.trace.exc # raw
          /\ ret.trace.fn_args = <<>>

C4_Witness ==
    /\ ret.op = "invoke_handler"
    /\ ret.handler.arity = 2
    /\ ret.io.input_serde = PydanticJsonSerde("ModelA")
    /\ ret.in_buffer = <<53>>
    /\ ret.trace.exc.cls = "TerminalError"

\* C5: a handler of arity 1 never has its input deserialized, whatever the
\* input bytes; the user function is called with the context only and what
\* it returns comes back encoded by the output serde.
C5_ArityOneSkipsInput ==
    (ret.op = "invoke_handler" /\ ret.handler.arity = 1)
    => /\ ~ret.trace.deserialized
       /\ ret.trace.fn_args = <<"ctx">>
       /\ (ret.behaviour = "return" =>
             /\ ret.trace.out_arg = <<UserResult(<<"ctx">>)>>
             /\ LET enc == Serialize(ret.io.output_serde,
                                     ret.trace.out_arg[1])
                IN IF enc.ok
                   THEN /\ ret.trace.kind = "return"
                        /\ ret.trace.bytes = enc.bytes
                   ELSE /\ ret.trace.kind = "raise"
                        /\ ret.trace.exc = enc.exc)

C5_Witness ==
    /\ ret.op = "invoke_handler"
    /\ ret.handler.arity = 1
    /\ ret.in_buffer = <<120>>
    /\ ret.trace.kind = "return"
    /\ ret.trace.bytes = <<55>>

LastAnnotation(signature) == signature.parameters[Len(signature.parameters)]

\* the serde a side holds after registration, by the selection rule
Selected(before, annotation) ==
    IF annotation \in PydanticModels /\ before = GeneralSerde
    THEN PydanticJsonSerde(annotation)
    ELSE before

\* C6: a successful make_handler replaces the serde of a side by the pydantic
\* serde of the declared type exactly when that type is a pydantic model and
\* the HandlerIO held GeneralSerde on that side; otherwise the serde of that
\* side is the one the HandlerIO held; each side on its own.
C6_SerdeSelection ==
    [][(ret'.op = "make_handler" /\ built' # built) =>
         LET before == ioHeap[ret'.handler_io]
             after  == ioHeap'[ret'.handler_io]
         IN /\ after.input_serde =
                  Selected(before.input_serde, LastAnnotation(ret'.signature))
            /\ after.output_serde =
                  Selected(before.output_serde,
                           ret'.signature.return_annotation)]_vars

C6_Witness ==
    /\ ret.op = "make_handler"
    /\ ret.handler # <<>>
    /\ Len(built) = 2
    /\ ret.signature = Sig(<<"Context", "int", "ModelA">>, "ModelB")
    /\ ioHeap["ioA"].input_serde = PydanticJsonSerde("ModelA")
    /\ ioHeap["ioA"].output_serde = GeneralSerde
    /\ ioHeap["ioB"].input_serde = BytesSerde
    /\ ioHeap["ioB"].output_serde = BytesSerde
    /\ ioHeap["ioB"].output_type = <<TypeHint("ModelB", TRUE)>>

\* C7: make_handler raises ValueError for a signature without parameters and
\* for a missing name on a function without a name, and a make_handler that
\* raised has changed neither any function's attached handler nor any
\* HandlerIO.
C7_FailedRegistrationHasNoEffect ==
    /\ []((/\ ret.op = "make_handler"
           /\ \/ Len(ret.signature.parameters) = 0
              \/ Falsy(ret.name) /\ Falsy(FnName(ret.wrapped)))
          => /\ ret.exc.cls = "ValueError"
             /\ ret.handler = <<>>)
    /\ [][(ret'.op = "make_handler" /\ ret'.handler = <<>>) =>
            /\ attr' = attr
            /\ ioHeap' = ioHeap
            /\ handler_from_callable(attr', ret'.wrapped)
                  = handler_from_callable(attr, ret'.wrapped)]_vars

C7_Witness ==
    /\ ret.op = "make_handler"
    /\ ret.exc.cls = "ValueError"
    /\ ret.wrapped = "anon"
    /\ ret.name = NONE
    /\ Len(ret.signature.parameters) = 2
    /\ attr["anon"] = <<>>
    /\ built # <<>>

\* the handler the latest successful make_handler on fn returned, if any
LastBuilt(fn) ==
    LET made == {i \in 1..Len(built) : built[i].handler.fn = fn}
    IN IF made = {} THEN <<>>
       ELSE <<built[CHOOSE i \in made : \A j \in made : j <= i].handler>>

\* C8: handler_from_callable(f) raises exactly when no make_handler on f has
\* succeeded, otherwise it returns the handler of the latest successful
\* make_handler on f; a make_handler on one function leaves the lookup of
\* every other function as it was.
C8_LookupReturnsLatest ==
    /\ [](\A f \in Fns :
            LET r == handler_from_callable(attr, f)
            IN /\ (r.exc.cls = "ValueError" <=> LastBuilt(f) = <<>>)
               /\ r.handler = LastBuilt(f))
    /\ [](ret.op = "handler_from_callable" =>
            /\ ret.handler = LastBuilt(ret.wrapper)
            /\ (ret.exc = NoExc <=> LastBuilt(ret.wrapper) # <<>>))
    /\ [][ret'.op = "make_handler" =>
            \A g \in Fns \ {ret'.wrapped} :
               handler_from_callable(attr', g)
                  = handler_from_callable(attr, g)]_vars

C8_Witness ==
    /\ ret.op = "handler_from_callable"
    /\ Len(built) = 2
    /\ built[1].handler.fn = ret.wrapper
    /\ built[2].handler.fn = ret.wrapper
    /\ ret.handler = <<built[2].handler>>

\* C9: the HandlerIO a returned handler holds stays as it was when the
\* handler was returned.
C9_HandlerIOFrozen ==
    \A i \in 1..Len(built) :
        ioHeap[built[i].handler.handler_io] = built[i].io

\* C10: a returned handler has arity equal to the number of parameters of
\* the signature, which is 1 or 2, and invoke_handler passes a payload to
\* the user function exactly when the function declares one.
C10_ArityOneOrTwo ==
    /\ \A i \in 1..Len(built) : built[i].handler.arity \in {1, 2}
    /\ (ret.op = "make_handler" /\ ret.handler # <<>> =>
          ret.handler[1].arity = Len(ret.signature.parameters))
    /\ (ret.op = "invoke_handler" /\ ret.trace.fn_args # <<>> =>
          (Len(ret.trace.fn_args) = 2 <=> ret.handler.arity >= 2))

====
